---------------------------- MODULE Spec2Model ----------------------------
(***************************************************************************)
(* Glitch Clocks (src/glitch-clocks.ino): the lane scheduler, the effect   *)
(* library and the mode dispatcher of the sketch, as a state machine whose *)
(* one step is one pass of loop().                                         *)
(*                                                                         *)
(* Representation                                                          *)
(*  - uint32_t timestamps are kept as their 32-bit two's-complement bit    *)
(*    pattern (a value v >= 2^31 is stored as v - 2^32).  U32Add wraps     *)
(*    like the C addition and SDiff(a, b) is the source's                  *)
(*    (int32_t)(a - b).  A timestamp of 0 is the source's "unset".         *)
(*  - float frequencies and multipliers are exact rationals: baseHz in     *)
(*    units of 1/HzScale Hz, nudgeMul in units of 1/MulScale.  Float       *)
(*    rounding is not modelled; periodMs quantises the product (see there).*)
(*  - millis() is read once per pass of loop(): the calls made inside one  *)
(*    pass return the value `now` read at its top.                         *)
(*  - Lane.minute is written by coilOn and never read; it is left out.     *)
(*  - every random draw is an input of the pass (the record `o`).          *)
(***************************************************************************)
EXTENDS Integers, Sequences, FiniteSets, TLC

(***************************** program constants ***************************)
PULSE_ON_MS == 120
MIN_OFF_MS == 120
JITTER_MS == 10
GLITCH_CHECK_MS == 4000
BURST_MIN_PULSES == 3
BURST_MAX_PULSES == 8
BURST_TARGET_MS == 150
NUDGE_MIN_MS == 2000
NUDGE_MAX_MS == 8000
FREEZE_MIN_MS == 2000
FREEZE_MAX_MS == 7000
LONG_PAUSE_MIN_MS == 10000
LONG_PAUSE_MAX_MS == 14000
LONG_PAUSE_COOLDOWN == 40000
STAGGER_STOP_STEP_MS == 700
STAGGER_SILENCE_MS == 3500
SYNC_BPM == 120
SYNC_HOLD_MS == 8000
SYNC_COOLDOWN_MS == 10000
ACCEL_DUR_MS == 10000
DECEL_DUR_MS == 10000
COUNTERBAL_DUR_MS == 8000
STORM_DUR_MS == 3500
STORM_TICK_MIN_MS == 180
STORM_TICK_MAX_MS == 350
SCOPE_DUR_MS == 60000
SNAP_DUR_MS == 4000
LIVENESS_WARN_MS == 20000
NLANES == 4

Lanes == 0..(NLANES - 1)

(* Frequencies in 1/HzScale Hz: SCOPE_DH * e / SCOPE_DUR_MS is then exactly *)
(* e units.  Multipliers in 1/MulScale: every ramp value at a whole         *)
(* millisecond is a whole number of units.                                  *)
HzScale == 6 * 1000 * 1000
MulScale == 8 * 1000 * 1000
One == MulScale

Hz100(c) == c * (HzScale \div 100)

(* BASE_HZ_A .. BASE_HZ_D = 1.00, 0.98, 1.02, 1.01 *)
BASE_HZ == [i \in Lanes |-> Hz100(CASE i = 0 -> 100 [] i = 1 -> 98
                                     [] i = 2 -> 102 [] OTHER -> 101)]

(* Levels a bounded random draw is sampled at: Rng(lo, hi, u) for u in      *)
(* 0..RngLevels-1 spreads over [lo, hi], both ends included.                *)
RngLevels == 2

Levels == 0..(RngLevels - 1)
Rng(lo, hi, u) == lo + ((hi - lo) * u) \div (RngLevels - 1)

(************************* 32-bit clock arithmetic *************************)
MaxI32 == (2^30 - 1) + 2^30
MinI32 == (-MaxI32) - 1

(* a + n for a uint32_t a (bit pattern) and an int n with |n| < 2^30 *)
U32Add(a, n) ==
  IF n >= 0
  THEN IF a > MaxI32 - n THEN ((a - MaxI32) - 1) + ((n - MaxI32) - 1) ELSE a + n
  ELSE IF a < MinI32 - n THEN ((a + MaxI32) + 1) + ((n + MaxI32) + 1) ELSE a + n

(* (int32_t)(a - b) *)
SDiff(a, b) ==
  IF (a >= 0) = (b >= 0) THEN a - b
  ELSE IF a >= 0
       THEN IF a > MaxI32 + b THEN ((a - MaxI32) - 1) - ((b + MaxI32) + 1) ELSE a - b
       ELSE IF a < MinI32 + b THEN ((a + MaxI32) + 1) + ((MaxI32 - b) + 1) ELSE a - b

(* constrain((float)(now - start) / (float)dur, 0, 1) * dur: the elapsed    *)
(* time clamped to the duration.  now - start is unsigned in the source: a  *)
(* bit pattern with the top bit set is a value >= 2^31 and clamps to dur.   *)
Progress(t, start, dur) ==
  LET e == SDiff(t, start) IN IF e < 0 \/ e > dur THEN dur ELSE e

(********************************** lanes **********************************)
(* struct Lane, with the three pins' output levels in place of the pin      *)
(* numbers.  hFired, hGate, hDrew and hArmed are observations of the        *)
(* current pass: whether coilOn energized the lane, the nextFree it found,  *)
(* whether the lane consumed its per-lane random draw, and whether the      *)
(* liveness check re-armed its schedule.                                    *)
Lane(hz, due, free) ==
  [baseHz |-> hz, nudgeMul |-> One, nudgeUntil |-> 0,
   nextDue |-> due, nextFree |-> free, coilOffAt |-> 0, running |-> TRUE,
   pol |-> FALSE, freezeUntil |-> 0, burstRemain |-> 0, savedHz |-> HzScale,
   IN1 |-> FALSE, IN2 |-> FALSE, EN |-> FALSE,
   hFired |-> FALSE, hGate |-> 0, hDrew |-> FALSE, hArmed |-> FALSE]

(* roundf(1000.0f / max(0.001f, baseHz * nudgeMul)).  The product is taken  *)
(* of the two factors cut to 1e-4 and kept in micro-Hz, so that it fits the *)
(* checker's integers; it is exact for the configured frequencies.          *)
periodMs(L) ==
  LET bq == L.baseHz \div (HzScale \div 10000)
      mq == L.nudgeMul \div (MulScale \div 10000)
      p == (bq * mq) \div 100
      eff == IF p < 1000 THEN 1000 ELSE p
  IN  (2 * 10^9 + eff) \div (2 * eff)

MutCoilOnShortGate(L, t) ==
  IF SDiff(t, L.nextFree) < 0 THEN L
  ELSE [L EXCEPT !.IN1 = L.pol, !.IN2 = ~L.pol, !.EN = TRUE,
                 !.coilOffAt = U32Add(t, PULSE_ON_MS),
                 !.nextFree = U32Add(t, PULSE_ON_MS),
                 !.pol = ~L.pol, !.hFired = TRUE, !.hGate = L.nextFree]
MutCoilOnKeepsPol(L, t) ==
  IF SDiff(t, L.nextFree) < 0 THEN L
  ELSE [L EXCEPT !.IN1 = L.pol, !.IN2 = ~L.pol, !.EN = TRUE,
                 !.coilOffAt = U32Add(t, PULSE_ON_MS),
                 !.nextFree = U32Add(t, PULSE_ON_MS + MIN_OFF_MS),
                 !.hFired = TRUE, !.hGate = L.nextFree]
coilOn(L, t) ==
  IF SDiff(t, L.nextFree) < 0 THEN L
  ELSE [L EXCEPT !.IN1 = L.pol, !.IN2 = ~L.pol, !.EN = TRUE,
                 !.coilOffAt = U32Add(t, PULSE_ON_MS),
                 !.nextFree = U32Add(t, PULSE_ON_MS + MIN_OFF_MS),
                 !.pol = ~L.pol, !.hFired = TRUE, !.hGate = L.nextFree]

maybeCoilOff(L, t) ==
  IF L.coilOffAt # 0 /\ SDiff(t, L.coilOffAt) >= 0
  THEN [L EXCEPT !.EN = FALSE, !.coilOffAt = 0]
  ELSE L

MutScheduleNoResync(L, t, u) ==
  LET base == periodMs(L)
      j == IF JITTER_MS > 0 THEN Rng(-JITTER_MS, JITTER_MS, u) ELSE 0
  IN  [L EXCEPT !.nextDue = U32Add(L.nextDue, base + j), !.hDrew = TRUE]
(* j is rng(-JITTER_MS, JITTER_MS) at level u *)
scheduleNext(L, t, u) ==
  LET base == periodMs(L)
      j == IF JITTER_MS > 0 THEN Rng(-JITTER_MS, JITTER_MS, u) ELSE 0
  IN  IF SDiff(t, L.nextDue) > base * 4
      THEN [L EXCEPT !.nextDue = U32Add(t, base + j), !.hDrew = TRUE]
      ELSE [L EXCEPT !.nextDue = U32Add(L.nextDue, base + j), !.hDrew = TRUE]

(* the while loop of the lane scheduler (loop(), lines 714-723) *)
RECURSIVE autoFire(_, _, _)
autoFire(L, t, u) ==
  IF SDiff(t, L.nextDue) < 0 THEN L
  ELSE IF SDiff(t, L.nextFree) < 0 THEN [L EXCEPT !.nextDue = L.nextFree]
  ELSE LET L1 == scheduleNext(coilOn(L, t), t, u)
       IN  IF SDiff(t, L1.nextDue) < 0 THEN L1 ELSE autoFire(L1, t, u)

MutBurstBeforeFreeze(L, t, u) ==
  LET L1 == maybeCoilOff(L, t)
      L2 == IF L1.nudgeUntil # 0 /\ SDiff(t, L1.nudgeUntil) >= 0
            THEN [L1 EXCEPT !.nudgeMul = One, !.nudgeUntil = 0] ELSE L1
  IN  IF L2.burstRemain > 0 /\ SDiff(t, L2.nextFree) >= 0
      THEN [coilOn(L2, t) EXCEPT !.burstRemain = L2.burstRemain - 1,
                                 !.nextDue = U32Add(t, BURST_TARGET_MS)]
      ELSE IF L2.freezeUntil # 0 /\ SDiff(t, L2.freezeUntil) < 0
      THEN [L2 EXCEPT !.nextDue = U32Add(t, 10)]
      ELSE LET L3 == [L2 EXCEPT !.freezeUntil = 0]
           IN  IF ~L3.running THEN L3 ELSE autoFire(L3, t, u)
MutBurstNoGate(L, t, u) ==
  LET L1 == maybeCoilOff(L, t)
      L2 == IF L1.nudgeUntil # 0 /\ SDiff(t, L1.nudgeUntil) >= 0
            THEN [L1 EXCEPT !.nudgeMul = One, !.nudgeUntil = 0] ELSE L1
  IN  IF L2.freezeUntil # 0 /\ SDiff(t, L2.freezeUntil) < 0
      THEN [L2 EXCEPT !.nextDue = U32Add(t, 10)]
      ELSE LET L3 == [L2 EXCEPT !.freezeUntil = 0]
           IN  IF L3.burstRemain > 0
               THEN [coilOn(L3, t) EXCEPT !.burstRemain = L3.burstRemain - 1,
                                          !.nextDue = U32Add(t, BURST_TARGET_MS)]
               ELSE IF ~L3.running THEN L3
               ELSE autoFire(L3, t, u)
(* one lane's turn in the lane scheduler (loop(), lines 689-724) *)
laneStep(L, t, u) ==
  LET L1 == maybeCoilOff(L, t)
      L2 == IF L1.nudgeUntil # 0 /\ SDiff(t, L1.nudgeUntil) >= 0
            THEN [L1 EXCEPT !.nudgeMul = One, !.nudgeUntil = 0] ELSE L1
  IN  IF L2.freezeUntil # 0 /\ SDiff(t, L2.freezeUntil) < 0
      THEN [L2 EXCEPT !.nextDue = U32Add(t, 10)]
      ELSE LET L3 == [L2 EXCEPT !.freezeUntil = 0]
           IN  IF L3.burstRemain > 0 /\ SDiff(t, L3.nextFree) >= 0
               THEN [coilOn(L3, t) EXCEPT !.burstRemain = L3.burstRemain - 1,
                                          !.nextDue = U32Add(t, BURST_TARGET_MS)]
               ELSE IF ~L3.running THEN L3
               ELSE autoFire(L3, t, u)

(****************************** program state ******************************)
(* S = [mode, lanes, g, ev]: the mode register, the LANES array, the other  *)
(* globals, and the events (Serial lines) printed so far in this pass.      *)
Modes == {"NORMAL", "BEAT", "SYNC_LOCK", "LONG_PAUSE", "STAGGER_BLACKOUT",
          "ACCEL", "DECEL", "SCOPE_CREEP", "PHASE_SNAP", "COUNTERBAL",
          "EMAIL_STORM"}

(* BeatPattern DEMBOW and ROCK; A, B, C are lanes 0, 1, 2 *)
BeatPatterns ==
  [dembow |-> [bpm |-> 95, steps |-> 16, bars |-> 4,
               hits |-> <<{0, 6, 8, 14}, {4, 12}, {2, 6, 10, 14}>>],
   rock   |-> [bpm |-> 104, steps |-> 16, bars |-> 4,
               hits |-> <<{0, 8}, {4, 12}, {2, 6, 10, 14}>>]]

Globals0 ==
  [lastAnyPulseAt |-> 0, lastTry |-> 0, lastLivenessLog |-> 0,
   pat |-> "none", stepPeriodMs |-> 0, nextStepAt |-> 0, step |-> 0, barsLeft |-> 0,
   lastSyncEnd |-> 0, modeEndsAt |-> 0, lastLongPauseEnd |-> 0,
   rampStart |-> 0, rampEnd |-> 0, rampTo |-> One,
   cbUp |-> -1, cbDown |-> -1, cbStart |-> 0, cbEnd |-> 0, cbDelta |-> 20 * (MulScale \div 100),
   stormEnd |-> 0, nextStormTick |-> 0,
   scopeStartHz |-> [i \in Lanes |-> 0], scopeStart |-> 0, scopeEnd |-> 0,
   snapRef |-> -1, snapFol |-> -1, snapEnd |-> 0]

Emit(S, e) == [S EXCEPT !.ev = Append(S.ev, e)]

(* coilOn also stamps lastAnyPulseAt *)
coilOnLane(S, i, t) ==
  LET L == coilOn(S.lanes[i], t)
  IN  IF L.hFired /\ ~S.lanes[i].hFired
      THEN [S EXCEPT !.lanes[i] = L, !.g.lastAnyPulseAt = t]
      ELSE [S EXCEPT !.lanes[i] = L]

clearTransientsAll(S) ==
  [S EXCEPT !.lanes = [i \in Lanes |->
      [S.lanes[i] EXCEPT !.burstRemain = 0, !.freezeUntil = 0,
                         !.nudgeMul = One, !.nudgeUntil = 0]]]

(********************************** Beat **********************************)
startBeat(S, t, p) ==
  LET S1 == clearTransientsAll(S)
  IN  Emit([S1 EXCEPT
        !.lanes = [i \in Lanes |-> [S1.lanes[i] EXCEPT !.running = FALSE]],
        !.g.pat = p,
        !.g.stepPeriodMs = (30000 + BeatPatterns[p].bpm) \div (2 * BeatPatterns[p].bpm),
        !.g.step = 0,
        !.g.barsLeft = BeatPatterns[p].bars,
        !.g.nextStepAt = U32Add(t, 20),
        !.mode = "BEAT"], "beat start")

endBeat(S, t) ==
  Emit([S EXCEPT
        !.lanes = [i \in Lanes |-> [S.lanes[i] EXCEPT
                      !.running = TRUE,
                      !.nextDue = U32Add(t, periodMs(S.lanes[i]))]],
        !.mode = "NORMAL",
        !.g.pat = "none"], "beat end")

(* u is the level of rng(-JITTER_MS/2, JITTER_MS/2) *)
MutBeatNeverEnds(S, t, u) ==
  IF S.g.pat = "none" \/ SDiff(t, S.g.nextStepAt) < 0 THEN S
  ELSE LET P == BeatPatterns[S.g.pat]
           hit(X, i) == IF S.g.step \in P.hits[i + 1] THEN coilOnLane(X, i, t) ELSE X
           S1 == hit(hit(hit(S, 0), 1), 2)
           j == IF JITTER_MS > 0
                THEN Rng(-(JITTER_MS \div 2), JITTER_MS \div 2, u) ELSE 0
       IN  [S1 EXCEPT !.g.nextStepAt = U32Add(S.g.nextStepAt, S.g.stepPeriodMs + j),
                      !.g.step = (S.g.step + 1) % P.steps]
MutBeatOneBarShort(S, t, u) ==
  IF S.g.pat = "none" \/ SDiff(t, S.g.nextStepAt) < 0 THEN S
  ELSE LET P == BeatPatterns[S.g.pat]
           hit(X, i) == IF S.g.step \in P.hits[i + 1] THEN coilOnLane(X, i, t) ELSE X
           S1 == hit(hit(hit(S, 0), 1), 2)
           j == IF JITTER_MS > 0
                THEN Rng(-(JITTER_MS \div 2), JITTER_MS \div 2, u) ELSE 0
           step1 == (S.g.step + 1) % P.steps
           wraps == step1 = 0 /\ S.g.barsLeft # 0
           S2 == [S1 EXCEPT !.g.nextStepAt = U32Add(S.g.nextStepAt, S.g.stepPeriodMs + j),
                            !.g.step = step1,
                            !.g.barsLeft = IF wraps THEN S.g.barsLeft - 1
                                           ELSE S.g.barsLeft]
       IN  IF wraps /\ S2.g.barsLeft <= 1 THEN endBeat(S2, t) ELSE S2
handleBeat(S, t, u) ==
  IF S.g.pat = "none" \/ SDiff(t, S.g.nextStepAt) < 0 THEN S
  ELSE LET P == BeatPatterns[S.g.pat]
           hit(X, i) == IF S.g.step \in P.hits[i + 1] THEN coilOnLane(X, i, t) ELSE X
           S1 == hit(hit(hit(S, 0), 1), 2)
           j == IF JITTER_MS > 0
                THEN Rng(-(JITTER_MS \div 2), JITTER_MS \div 2, u) ELSE 0
           step1 == (S.g.step + 1) % P.steps
           wraps == step1 = 0 /\ S.g.barsLeft # 0
           S2 == [S1 EXCEPT !.g.nextStepAt = U32Add(S.g.nextStepAt, S.g.stepPeriodMs + j),
                            !.g.step = step1,
                            !.g.barsLeft = IF wraps THEN S.g.barsLeft - 1
                                           ELSE S.g.barsLeft]
       IN  IF wraps /\ S2.g.barsLeft = 0 THEN endBeat(S2, t) ELSE S2

(******************************** Sync-lock ********************************)
MutSyncLockKeepsHz(S, t) ==
  IF SDiff(t, S.g.lastSyncEnd) < SYNC_COOLDOWN_MS THEN S
  ELSE LET S1 == clearTransientsAll(S)
       IN  Emit([S1 EXCEPT
             !.lanes = [i \in Lanes |-> [S1.lanes[i] EXCEPT
                           !.savedHz = HzScale,
                           !.baseHz = (SYNC_BPM * HzScale) \div 60,
                           !.running = TRUE,
                           !.nextDue = U32Add(t, 50),
                           !.pol = FALSE]],
             !.mode = "SYNC_LOCK",
             !.g.modeEndsAt = U32Add(t, SYNC_HOLD_MS)], "sync start")
MutSyncLockNoCooldown(S, t) ==
  LET S1 == clearTransientsAll(S)
  IN  Emit([S1 EXCEPT
        !.lanes = [i \in Lanes |-> [S1.lanes[i] EXCEPT
                      !.savedHz = S1.lanes[i].baseHz,
                      !.baseHz = (SYNC_BPM * HzScale) \div 60,
                      !.running = TRUE,
                      !.nextDue = U32Add(t, 50),
                      !.pol = FALSE]],
        !.mode = "SYNC_LOCK",
        !.g.modeEndsAt = U32Add(t, SYNC_HOLD_MS)], "sync start")
startSyncLock(S, t) ==
  IF SDiff(t, S.g.lastSyncEnd) < SYNC_COOLDOWN_MS THEN S
  ELSE LET S1 == clearTransientsAll(S)
       IN  Emit([S1 EXCEPT
             !.lanes = [i \in Lanes |-> [S1.lanes[i] EXCEPT
                           !.savedHz = S1.lanes[i].baseHz,
                           !.baseHz = (SYNC_BPM * HzScale) \div 60,
                           !.running = TRUE,
                           !.nextDue = U32Add(t, 50),
                           !.pol = FALSE]],
             !.mode = "SYNC_LOCK",
             !.g.modeEndsAt = U32Add(t, SYNC_HOLD_MS)], "sync start")

(* w[i] is the level of lane i's rng(0, 120) *)
endSyncLock(S, t, w) ==
  Emit([S EXCEPT
        !.lanes = [i \in Lanes |->
           LET L == [S.lanes[i] EXCEPT !.baseHz = S.lanes[i].savedHz,
                                       !.nudgeMul = One, !.nudgeUntil = 0]
           IN  [L EXCEPT !.nextDue = U32Add(t, periodMs(L) + Rng(0, 120, w[i])),
                         !.hDrew = TRUE]],
        !.mode = "NORMAL",
        !.g.lastSyncEnd = t], "sync end")

(************************ Long pause, stagger blackout **********************)
(* u is the level of rng(LONG_PAUSE_MIN_MS, LONG_PAUSE_MAX_MS) *)
startLongPause(S, t, u) ==
  IF SDiff(t, S.g.lastLongPauseEnd) < LONG_PAUSE_COOLDOWN THEN S
  ELSE LET S1 == clearTransientsAll(S)
           dur == Rng(LONG_PAUSE_MIN_MS, LONG_PAUSE_MAX_MS, u)
       IN  Emit([S1 EXCEPT
             !.lanes = [i \in Lanes |-> [S1.lanes[i] EXCEPT
                           !.freezeUntil = U32Add(t, dur), !.running = FALSE]],
             !.mode = "LONG_PAUSE",
             !.g.modeEndsAt = U32Add(t, dur)], "pause start")

endLongPause(S, t, w) ==
  Emit([S EXCEPT
        !.lanes = [i \in Lanes |-> [S.lanes[i] EXCEPT
                      !.running = TRUE,
                      !.nextDue = U32Add(t, periodMs(S.lanes[i]) + Rng(0, 120, w[i])),
                      !.hDrew = TRUE]],
        !.mode = "NORMAL",
        !.g.lastLongPauseEnd = t], "pause end")

startStaggerBlackout(S, t) ==
  LET S1 == clearTransientsAll(S)
  IN  Emit([S1 EXCEPT
        !.lanes = [i \in Lanes |-> [S1.lanes[i] EXCEPT
            !.freezeUntil = U32Add(t, STAGGER_SILENCE_MS
                                      + STAGGER_STOP_STEP_MS * ((NLANES - 1) - i)),
            !.running = FALSE]],
        !.mode = "STAGGER_BLACKOUT",
        !.g.modeEndsAt = U32Add(t, STAGGER_SILENCE_MS
                                   + STAGGER_STOP_STEP_MS * (NLANES - 1))],
       "stagger start")

MutStaggerLeavesStopped(S, t, w) ==
  Emit([S EXCEPT
        !.lanes = [i \in Lanes |-> [S.lanes[i] EXCEPT
            !.nextDue = U32Add(t, periodMs(S.lanes[i]) + Rng(0, 100 + 20 * i, w[i])),
            !.hDrew = TRUE]],
        !.mode = "NORMAL"], "stagger end")
endStaggerBlackout(S, t, w) ==
  Emit([S EXCEPT
        !.lanes = [i \in Lanes |-> [S.lanes[i] EXCEPT
            !.running = TRUE,
            !.nextDue = U32Add(t, periodMs(S.lanes[i]) + Rng(0, 100 + 20 * i, w[i])),
            !.hDrew = TRUE]],
        !.mode = "NORMAL"], "stagger end")

(************************ Accelerando / Decelerando ************************)
(* (float)rng(lo100, hi100) / 100.0f as a multiplier *)
Mul100(c) == c * (MulScale \div 100)

(* 1.0f + (to - 1.0f) * t, with t = e / dur (dur divides the span's units) *)
RampMul(to, e, dur) == One + ((to - One) \div dur) * e

startAccelerando(S, t, u) ==
  LET S1 == clearTransientsAll(S)
  IN  Emit([S1 EXCEPT
        !.g.rampStart = t,
        !.g.rampEnd = U32Add(t, ACCEL_DUR_MS),
        !.g.rampTo = Mul100(Rng(125, 140, u)),
        !.mode = "ACCEL"], "accel start")

startDecelerando(S, t, u) ==
  LET S1 == clearTransientsAll(S)
  IN  Emit([S1 EXCEPT
        !.g.rampStart = t,
        !.g.rampEnd = U32Add(t, DECEL_DUR_MS),
        !.g.rampTo = Mul100(Rng(70, 85, u)),
        !.mode = "DECEL"], "decel start")

(* handleAccelerando and handleDecelerando share their body *)
MutRampNoReset(S, t, name) ==
  LET dur == SDiff(S.g.rampEnd, S.g.rampStart)
      mul == RampMul(S.g.rampTo, Progress(t, S.g.rampStart, dur), dur)
      S1 == [S EXCEPT !.lanes = [i \in Lanes |-> [S.lanes[i] EXCEPT !.nudgeMul = mul]]]
  IN  IF SDiff(t, S.g.rampEnd) >= 0
      THEN Emit([S1 EXCEPT !.mode = "NORMAL"], name)
      ELSE S1
handleRamp(S, t, name) ==
  LET dur == SDiff(S.g.rampEnd, S.g.rampStart)
      mul == RampMul(S.g.rampTo, Progress(t, S.g.rampStart, dur), dur)
      S1 == [S EXCEPT !.lanes = [i \in Lanes |-> [S.lanes[i] EXCEPT !.nudgeMul = mul]]]
  IN  IF SDiff(t, S.g.rampEnd) >= 0
      THEN Emit([S1 EXCEPT
             !.lanes = [i \in Lanes |-> [S1.lanes[i] EXCEPT !.nudgeMul = One]],
             !.mode = "NORMAL"], name)
      ELSE S1

(****************************** Counterbalance *****************************)
(* up is rng(0, NLANES-1); down is the draw that ends the do-while loop,    *)
(* so it differs from up; u is the level of the delta's rng(20, 35).        *)
startCounterbalance(S, t, up, down, u) ==
  Emit([S EXCEPT
        !.g.cbUp = up, !.g.cbDown = down,
        !.g.cbDelta = Mul100(Rng(20, 35, u)),
        !.g.cbStart = t,
        !.g.cbEnd = U32Add(t, COUNTERBAL_DUR_MS),
        !.lanes = [i \in Lanes |-> [S.lanes[i] EXCEPT !.nudgeMul = One]],
        !.mode = "COUNTERBAL"], "counter start")

handleCounterbalance(S, t) ==
  LET dur == SDiff(S.g.cbEnd, S.g.cbStart)
      e == Progress(t, S.g.cbStart, dur)
      upMul == One + (S.g.cbDelta \div dur) * e
      downMul == One - (S.g.cbDelta \div dur) * e
      S1 == [S EXCEPT !.lanes = [i \in Lanes |-> [S.lanes[i] EXCEPT
                !.nudgeMul = IF i = S.g.cbUp THEN upMul
                             ELSE IF i = S.g.cbDown THEN downMul ELSE One]]]
  IN  IF SDiff(t, S.g.cbEnd) >= 0
      THEN Emit([S1 EXCEPT
             !.lanes = [i \in Lanes |-> [S1.lanes[i] EXCEPT !.nudgeMul = One]],
             !.mode = "NORMAL"], "counter end")
      ELSE S1

(******************************* Email storm *******************************)
startEmailStorm(S, t) ==
  LET S1 == clearTransientsAll(S)
  IN  Emit([S1 EXCEPT
        !.g.stormEnd = U32Add(t, STORM_DUR_MS),
        !.g.nextStormTick = t,
        !.mode = "EMAIL_STORM"], "storm start")

(* pickTwoDistinct: i = random(0, NLANES), j = (i + 1 + random(0, NLANES-1)) % NLANES *)
(* h = [a, k, u, v, x]: i, the second draw, the two burst counts' levels    *)
(* and the level of the next tick's rng(STORM_TICK_MIN_MS, STORM_TICK_MAX_MS) *)
MutStormKeepsMode(S, t, h) ==
  IF SDiff(t, S.g.stormEnd) >= 0
  THEN Emit(S, "storm end")
  ELSE IF SDiff(t, S.g.nextStormTick) >= 0
  THEN LET i == h.a
           j == (h.a + 1 + h.k) % NLANES
           n1 == Rng(BURST_MIN_PULSES, BURST_MAX_PULSES, h.u)
           n2 == Rng(BURST_MIN_PULSES, BURST_MAX_PULSES, h.v)
           ls == IF NLANES < 2
                 THEN [S.lanes EXCEPT ![0].burstRemain = n1]
                 ELSE [[S.lanes EXCEPT ![i].burstRemain = n1] EXCEPT ![j].burstRemain = n2]
       IN  [S EXCEPT !.lanes = ls,
                     !.g.nextStormTick =
                        U32Add(t, Rng(STORM_TICK_MIN_MS, STORM_TICK_MAX_MS, h.x))]
  ELSE S
handleEmailStorm(S, t, h) ==
  IF SDiff(t, S.g.stormEnd) >= 0
  THEN Emit([S EXCEPT !.mode = "NORMAL"], "storm end")
  ELSE IF SDiff(t, S.g.nextStormTick) >= 0
  THEN LET i == h.a
           j == (h.a + 1 + h.k) % NLANES
           n1 == Rng(BURST_MIN_PULSES, BURST_MAX_PULSES, h.u)
           n2 == Rng(BURST_MIN_PULSES, BURST_MAX_PULSES, h.v)
           ls == IF NLANES < 2
                 THEN [S.lanes EXCEPT ![0].burstRemain = n1]
                 ELSE [[S.lanes EXCEPT ![i].burstRemain = n1] EXCEPT ![j].burstRemain = n2]
       IN  [S EXCEPT !.lanes = ls,
                     !.g.nextStormTick =
                        U32Add(t, Rng(STORM_TICK_MIN_MS, STORM_TICK_MAX_MS, h.x))]
  ELSE S

(******************************** Reorg swap *******************************)
MutReorgRotatesBack(S, t) ==
  IF NLANES < 2 THEN S
  ELSE LET ls == [i \in Lanes |-> [S.lanes[i] EXCEPT
                     !.baseHz = S.lanes[(i + NLANES - 1) % NLANES].baseHz]]
       IN  Emit([S EXCEPT !.lanes = [i \in Lanes |-> [ls[i] EXCEPT
                     !.nextDue = U32Add(t, periodMs(ls[i]))]]], "reorg")
reorgSwap(S, t) ==
  IF NLANES < 2 THEN S
  ELSE LET ls == [i \in Lanes |-> [S.lanes[i] EXCEPT
                     !.baseHz = S.lanes[(i + 1) % NLANES].baseHz]]
       IN  Emit([S EXCEPT !.lanes = [i \in Lanes |-> [ls[i] EXCEPT
                     !.nextDue = U32Add(t, periodMs(ls[i]))]]], "reorg")

(******************************* Scope creep *******************************)
SCOPE_DH == HzScale \div 100

startScopeCreep(S, t) ==
  Emit([S EXCEPT
        !.g.scopeStart = t,
        !.g.scopeEnd = U32Add(t, SCOPE_DUR_MS),
        !.g.scopeStartHz = [i \in Lanes |-> S.lanes[i].baseHz],
        !.mode = "SCOPE_CREEP"], "scope start")

handleScopeCreep(S, t) ==
  LET dur == SDiff(S.g.scopeEnd, S.g.scopeStart)
      e == Progress(t, S.g.scopeStart, dur)
      S1 == [S EXCEPT !.lanes = [i \in Lanes |-> [S.lanes[i] EXCEPT
                !.baseHz = S.g.scopeStartHz[i] + (SCOPE_DH \div dur) * e]]]
  IN  IF SDiff(t, S.g.scopeEnd) >= 0
      THEN Emit([S1 EXCEPT
             !.lanes = [i \in Lanes |-> [S1.lanes[i] EXCEPT
                           !.baseHz = S.g.scopeStartHz[i]]],
             !.mode = "NORMAL"], "scope end")
      ELSE S1

(******************************** Phase snap *******************************)
(* ref is rng(0, NLANES-1); fol is the draw that ends the do-while loop *)
startPhaseSnap(S, t, ref, fol) ==
  Emit([S EXCEPT
        !.g.snapRef = ref, !.g.snapFol = fol,
        !.lanes[fol] = [S.lanes[fol] EXCEPT
                          !.savedHz = S.lanes[fol].baseHz,
                          !.baseHz = S.lanes[ref].baseHz,
                          !.nextDue = S.lanes[ref].nextDue],
        !.g.snapEnd = U32Add(t, SNAP_DUR_MS),
        !.mode = "PHASE_SNAP"], "snap start")

MutSnapNoRestore(S, t) ==
  LET ref == S.g.snapRef
      fol == S.g.snapFol
      S1 == [S EXCEPT !.lanes[fol] = [S.lanes[fol] EXCEPT
                          !.baseHz = S.lanes[ref].baseHz,
                          !.nextDue = S.lanes[ref].nextDue]]
  IN  IF SDiff(t, S.g.snapEnd) >= 0
      THEN Emit([S1 EXCEPT !.mode = "NORMAL"], "snap end")
      ELSE S1
MutSnapReschedules(S, t) ==
  LET ref == S.g.snapRef
      fol == S.g.snapFol
      S1 == [S EXCEPT !.lanes[fol] = [S.lanes[fol] EXCEPT
                          !.baseHz = S.lanes[ref].baseHz,
                          !.nextDue = S.lanes[ref].nextDue]]
  IN  IF SDiff(t, S.g.snapEnd) >= 0
      THEN Emit([S1 EXCEPT !.lanes[fol].baseHz = S1.lanes[fol].savedHz,
                           !.lanes[fol].nextDue = U32Add(t, periodMs(S1.lanes[fol])),
                           !.mode = "NORMAL"], "snap end")
      ELSE S1
handlePhaseSnap(S, t) ==
  LET ref == S.g.snapRef
      fol == S.g.snapFol
      S1 == [S EXCEPT !.lanes[fol] = [S.lanes[fol] EXCEPT
                          !.baseHz = S.lanes[ref].baseHz,
                          !.nextDue = S.lanes[ref].nextDue]]
  IN  IF SDiff(t, S.g.snapEnd) >= 0
      THEN Emit([S1 EXCEPT !.lanes[fol].baseHz = S1.lanes[fol].savedHz,
                           !.mode = "NORMAL"], "snap end")
      ELSE S1

(*************************** Random glitch engine **************************)
(* W_PAUSE .. W_REORG in 1/10000, in WEIGHT_PTRS order; a draw r stands for *)
(* the float random(0, 10000) / 10000.0f.                                   *)
WEIGHTS == <<800, 800, 1000, 300, 1000, 1000, 800, 800, 600, 600, 600>>
NEFF == Len(WEIGHTS)

RECURSIVE SumTo(_)
SumTo(n) == IF n = 0 THEN 0 ELSE SumTo(n - 1) + WEIGHTS[n]

(* buildWeights: cumW[i] for i in 0..NEFF, with cumW[NEFF] = 1.0 *)
cumW == [i \in 0..NEFF |-> IF i = NEFF THEN 10000 ELSE SumTo(i + 1)]

(* The subtle per-lane glitch of pickAndStartEffect.  d.a is the lane,      *)
(* d.sub the draw random(0, 100), d.coin the sign, d.u and d.v levels of    *)
(* the magnitude / count and of the duration.                               *)
subtleGlitch(S, t, d) ==
  IF d.sub < 40
  THEN LET q == Rng(30, 99, d.u)
           mul == IF d.coin THEN One + 3 * q * (MulScale \div 10000)
                  ELSE One - 3 * q * (MulScale \div 10000)
           dur == Rng(NUDGE_MIN_MS, NUDGE_MAX_MS, d.v)
       IN  Emit([S EXCEPT !.lanes[d.a].nudgeMul = mul,
                          !.lanes[d.a].nudgeUntil = U32Add(t, dur)], "glitch nudge")
  ELSE IF d.sub < 65
  THEN LET dur == Rng(FREEZE_MIN_MS, FREEZE_MAX_MS, d.v)
       IN  Emit([S EXCEPT !.lanes[d.a].freezeUntil = U32Add(t, dur)], "glitch freeze")
  ELSE Emit([S EXCEPT !.lanes[d.a].burstRemain =
                         Rng(BURST_MIN_PULSES, BURST_MAX_PULSES, d.u)], "glitch burst")

MutPickInclusive(S, t, d) ==
  IF d.r <= cumW[0] THEN startLongPause(S, t, d.u)
  ELSE IF d.r < cumW[1] THEN startStaggerBlackout(S, t)
  ELSE IF d.r < cumW[2] THEN startSyncLock(S, t)
  ELSE IF d.r < cumW[3] THEN startBeat(S, t, IF d.coin THEN "dembow" ELSE "rock")
  ELSE IF d.r < cumW[4] THEN startAccelerando(S, t, d.u)
  ELSE IF d.r < cumW[5] THEN startDecelerando(S, t, d.u)
  ELSE IF d.r < cumW[6] THEN startCounterbalance(S, t, d.a, d.b, d.u)
  ELSE IF d.r < cumW[7] THEN startEmailStorm(S, t)
  ELSE IF d.r < cumW[8] THEN startPhaseSnap(S, t, d.a, d.b)
  ELSE IF d.r < cumW[9] THEN startScopeCreep(S, t)
  ELSE IF d.r < cumW[10] THEN reorgSwap(S, t)
  ELSE subtleGlitch(S, t, d)
pickAndStartEffect(S, t, d) ==
  IF d.r < cumW[0] THEN startLongPause(S, t, d.u)
  ELSE IF d.r < cumW[1] THEN startStaggerBlackout(S, t)
  ELSE IF d.r < cumW[2] THEN startSyncLock(S, t)
  ELSE IF d.r < cumW[3] THEN startBeat(S, t, IF d.coin THEN "dembow" ELSE "rock")
  ELSE IF d.r < cumW[4] THEN startAccelerando(S, t, d.u)
  ELSE IF d.r < cumW[5] THEN startDecelerando(S, t, d.u)
  ELSE IF d.r < cumW[6] THEN startCounterbalance(S, t, d.a, d.b, d.u)
  ELSE IF d.r < cumW[7] THEN startEmailStorm(S, t)
  ELSE IF d.r < cumW[8] THEN startPhaseSnap(S, t, d.a, d.b)
  ELSE IF d.r < cumW[9] THEN startScopeCreep(S, t)
  ELSE IF d.r < cumW[10] THEN reorgSwap(S, t)
  ELSE subtleGlitch(S, t, d)

(********************************** loop() *********************************)
(* "consider a new effect while idle" (lines 645-650): d.tryU is the level  *)
(* of rng(-500, 500), d.roll is random(0, 1000) < GLITCH_PROB * 1000.       *)
dispatcherDue(S, t) == S.mode = "NORMAL" /\ SDiff(t, S.g.lastTry) >= 0

MutDispatchAnyMode(S, t, d) ==
  IF SDiff(t, S.g.lastTry) >= 0
  THEN LET S1 == [S EXCEPT !.g.lastTry =
                     U32Add(t, GLITCH_CHECK_MS + Rng(-500, 500, d.tryU))]
       IN  IF d.roll THEN pickAndStartEffect(S1, t, d) ELSE S1
  ELSE S
considerEffect(S, t, d) ==
  IF dispatcherDue(S, t)
  THEN LET S1 == [S EXCEPT !.g.lastTry =
                     U32Add(t, GLITCH_CHECK_MS + Rng(-500, 500, d.tryU))]
       IN  IF d.roll THEN pickAndStartEffect(S1, t, d) ELSE S1
  ELSE S

(* "handle modes" (lines 652-671) *)
handleMode(S, t, h, w) ==
  CASE S.mode = "BEAT" -> handleBeat(S, t, h.hu)
    [] S.mode = "SYNC_LOCK" ->
         IF SDiff(t, S.g.modeEndsAt) >= 0 THEN endSyncLock(S, t, w) ELSE S
    [] S.mode = "LONG_PAUSE" ->
         IF SDiff(t, S.g.modeEndsAt) >= 0 THEN endLongPause(S, t, w) ELSE S
    [] S.mode = "STAGGER_BLACKOUT" ->
         IF SDiff(t, S.g.modeEndsAt) >= 0 THEN endStaggerBlackout(S, t, w) ELSE S
    [] S.mode = "ACCEL" -> handleRamp(S, t, "accel end")
    [] S.mode = "DECEL" -> handleRamp(S, t, "decel end")
    [] S.mode = "EMAIL_STORM" -> handleEmailStorm(S, t, h)
    [] S.mode = "SCOPE_CREEP" -> handleScopeCreep(S, t)
    [] S.mode = "PHASE_SNAP" -> handlePhaseSnap(S, t)
    [] S.mode = "COUNTERBAL" -> handleCounterbalance(S, t)
    [] OTHER -> S

(* "Liveness check" (lines 673-686); w[i] is the level of lane i's rng(0, 100) *)
livenessCheck(S, t, w) ==
  IF SDiff(t, S.g.lastAnyPulseAt) > LIVENESS_WARN_MS /\ S.mode = "NORMAL"
  THEN LET S1 == [S EXCEPT !.lanes = [i \in Lanes |->
                     IF ~S.lanes[i].running THEN S.lanes[i]
                     ELSE [S.lanes[i] EXCEPT
                             !.nextDue = U32Add(t, periodMs(S.lanes[i]) + Rng(0, 100, w[i])),
                             !.hDrew = TRUE, !.hArmed = TRUE]]]
       IN  IF SDiff(t, S1.g.lastLivenessLog) > 5000
           THEN Emit([S1 EXCEPT !.g.lastLivenessLog = t], "watch")
           ELSE S1
  ELSE S

(* "lane scheduler" (lines 688-724) *)
laneScheduler(S, t, w) ==
  LET ls == [i \in Lanes |-> laneStep(S.lanes[i], t, w[i])]
  IN  [S EXCEPT !.lanes = ls,
                !.g.lastAnyPulseAt =
                   IF \E i \in Lanes : ls[i].hFired /\ ~S.lanes[i].hFired
                   THEN t ELSE S.g.lastAnyPulseAt]

(* The observations of the previous pass are cleared when a pass begins. *)
BeginPass(S) ==
  [S EXCEPT !.ev = <<>>,
            !.lanes = [i \in Lanes |-> [S.lanes[i] EXCEPT
                          !.hFired = FALSE, !.hGate = 0, !.hDrew = FALSE,
                          !.hArmed = FALSE]]]

(* One pass of loop() reading millis() = t, with the draws o = [d, h, w].   *)
(* mid is the state between "consider a new effect" and "handle modes".     *)
loopMid(S, t, o) == considerEffect(BeginPass(S), t, o.d)
loop(S, t, o) ==
  laneScheduler(livenessCheck(handleMode(loopMid(S, t, o), t, o.h, o.w), t, o.w), t, o.w)

(****************************** state machine ******************************)
VARIABLES
  now,      \* the last millis() reading (uint32_t bit pattern)
  mode,     \* Mode mode
  lanes,    \* LANES[]
  g,        \* the other globals
  ev,       \* the events printed by the last pass
  elapsed,  \* observation: ms since setup()
  hist,     \* observation: what earlier passes did (see Observe)
  starts,   \* bound: glitch rolls that may still succeed
  free,     \* bound: passes that may still draw other than the default levels
  pk        \* a start routine's search for two distinct lanes (see PickInit)

vars == <<now, mode, lanes, g, ev, elapsed, hist, starts, free, pk>>

State == [mode |-> mode, lanes |-> lanes, g |-> g, ev |-> ev]

(* The inputs of a pass: d for "consider a new effect", h for the mode's    *)
(* handler, w the per-lane draws (scheduler jitter, the end routines' and   *)
(* the liveness check's offsets).  D0, H0, W0: no glitch, every draw at its *)
(* lowest level.                                                            *)
D0 == [tryU |-> 0, roll |-> FALSE, r |-> 0, coin |-> FALSE, u |-> 0, v |-> 0,
       a |-> 0, b |-> 1, sub |-> 0]
H0 == [hu |-> 0, a |-> 0, k |-> 0, u |-> 0, v |-> 0, x |-> 0]
W0 == [i \in Lanes |-> 0]
O0 == [d |-> D0, h |-> H0, w |-> W0]

(* the bucket of pickAndStartEffect a draw r falls in: 0..NEFF-1 the named  *)
(* effects in WEIGHT_PTRS order, NEFF the subtle glitch                     *)
Bucket(r) == IF r >= cumW[NEFF - 1] THEN NEFF
             ELSE CHOOSE i \in 0..(NEFF - 1) :
                    r < cumW[i] /\ (i = 0 \/ r >= cumW[i - 1])

Pairs(ps) == {p \in ps \X ps : p[1] # p[2]}

(* the start routines' draws that matter for a dispatcher draw r *)
StartDraws(r, P) ==
  LET b == Bucket(r)
      base == [D0 EXCEPT !.roll = TRUE, !.r = r]
  IN  CASE b \in {0, 4, 5} -> {[base EXCEPT !.u = x] : x \in Levels}
        [] b = 3 -> {[base EXCEPT !.coin = c] : c \in BOOLEAN}
        [] b = 6 -> {[base EXCEPT !.a = p[1], !.b = p[2], !.u = x] :
                       p \in Pairs(P.picks), x \in Levels}
        [] b = 8 -> {[base EXCEPT !.a = p[1], !.b = p[2]] : p \in Pairs(P.picks)}
        [] b = NEFF ->
             {[base EXCEPT !.a = a, !.sub = 0, !.coin = c, !.u = x, !.v = y] :
                a \in P.picks, c \in BOOLEAN, x \in Levels, y \in Levels}
             \cup {[base EXCEPT !.a = a, !.sub = 40, !.v = y] :
                a \in P.picks, y \in Levels}
             \cup {[base EXCEPT !.a = a, !.sub = 65, !.u = x] :
                a \in P.picks, x \in Levels}
        [] OTHER -> {base}

(* the handler's draws that matter in state S (after "consider a new effect") *)
HChoices(S, t, P) ==
  IF S.mode = "BEAT" /\ S.g.pat # "none" /\ SDiff(t, S.g.nextStepAt) >= 0
  THEN {[H0 EXCEPT !.hu = x] : x \in Levels}
  ELSE IF S.mode = "EMAIL_STORM" /\ SDiff(t, S.g.stormEnd) < 0
          /\ SDiff(t, S.g.nextStormTick) >= 0
  THEN {[H0 EXCEPT !.a = a, !.k = k, !.u = x, !.v = y, !.x = z] :
          a \in P.picks, k \in 0..(NLANES - 2), x \in Levels, y \in Levels, z \in Levels}
  ELSE {H0}

(* the per-lane draws that matter: those of the lanes that draw *)
WChoices(S, t, d, h) ==
  LET R == loop(S, t, [d |-> d, h |-> h, w |-> W0])
  IN  {w \in [Lanes -> Levels] : \A i \in Lanes : R.lanes[i].hDrew \/ w[i] = 0}

(* no search for two lanes under way *)
PickIdle == [kind |-> "none", n |-> NLANES, a |-> -1, b |-> -1,
             spin |-> FALSE, done |-> TRUE]

(* setup() at millis() = t0: lane i's rng(0, 500) is taken at level i *)
Setup(t0) ==
  [mode |-> "NORMAL",
   lanes |-> [i \in Lanes |->
                Lane(BASE_HZ[i], U32Add(t0, Rng(0, 500, i % RngLevels)), t0)],
   g |-> [Globals0 EXCEPT !.lastAnyPulseAt = t0],
   ev |-> <<>>]

Events(S) == {S.ev[k] : k \in 1..Len(S.ev)}

(* The event log, as a reader of the serial output would keep it.          *)
(*  pick           the draw r the last pass handed to pickAndStartEffect,   *)
(*                 -1 when it did not call it                               *)
(*  syncReleased   a Sync-Lock has been released since setup()              *)
(*  pauseReleased  a Long Pause has been released since setup()             *)
(*  open           the start event that has no end event yet, or "none"     *)
(*  logOk          so far every start came with nothing open, every end     *)
(*                 closed the open start of its own effect, and every       *)
(*                 Reorg / subtle glitch came with nothing open             *)
EventPairs ==
  {<<"beat start", "beat end">>, <<"sync start", "sync end">>,
   <<"pause start", "pause end">>, <<"stagger start", "stagger end">>,
   <<"accel start", "accel end">>, <<"decel start", "decel end">>,
   <<"counter start", "counter end">>, <<"storm start", "storm end">>,
   <<"scope start", "scope end">>, <<"snap start", "snap end">>}
GlitchEvents == {"reorg", "glitch nudge", "glitch freeze", "glitch burst"}

Log0 == [pick |-> -1, syncReleased |-> FALSE, pauseReleased |-> FALSE,
         open |-> "none", logOk |-> TRUE]

LogStep(l, e) ==
  IF \E p \in EventPairs : p[1] = e
  THEN [l EXCEPT !.open = e, !.logOk = l.logOk /\ l.open = "none"]
  ELSE IF \E p \in EventPairs : p[2] = e
  THEN [l EXCEPT !.open = "none", !.logOk = l.logOk /\ <<l.open, e>> \in EventPairs]
  ELSE IF e \in GlitchEvents
  THEN [l EXCEPT !.logOk = l.logOk /\ l.open = "none"]
  ELSE l

RECURSIVE LogAll(_, _)
LogAll(l, es) == IF es = <<>> THEN l ELSE LogAll(LogStep(l, Head(es)), Tail(es))

(* What the passes so far did, per lane.                                    *)
(*  pulses      the pulses fired so far, counted up to 2                    *)
(*  offAt       the coilOffAt the last pulse set; prevOffAt the one before  *)
(*  polAt       the IN1 level the last pulse asserted; prevPol the one before *)
(*  syncSince   Sync-Lock started since the last pulse; syncBetween: between *)
(*              the last two pulses                                         *)
(*  hzBefore    baseHz when the last pass began                             *)
(*  lockHz      baseHz when the pass that started the last Sync-Lock began  *)
(*  wLaunch     the nextDue the liveness check set when it first re-armed   *)
(*              the schedules; wOk: since then the mode stayed NORMAL, no   *)
(*              effect or glitch started and the lane stayed running and    *)
(*              unfrozen; wFired: the lane fired since then                 *)
(*  ended       (one flag, not per lane) a timed effect has run to its end  *)
Hist0 ==
  [pulses |-> [i \in Lanes |-> 0],
   offAt |-> [i \in Lanes |-> 0], prevOffAt |-> [i \in Lanes |-> 0],
   polAt |-> [i \in Lanes |-> FALSE], prevPol |-> [i \in Lanes |-> FALSE],
   syncSince |-> [i \in Lanes |-> FALSE], syncBetween |-> [i \in Lanes |-> FALSE],
   hzBefore |-> [i \in Lanes |-> BASE_HZ[i]],
   lockHz |-> [i \in Lanes |-> 0],
   wLaunch |-> [i \in Lanes |-> 0], wOk |-> [i \in Lanes |-> FALSE],
   wFired |-> [i \in Lanes |-> FALSE],
   ended |-> FALSE]
  @@ Log0

Observe(h, S, S1) ==
  LET fired(i) == S1.lanes[i].hFired
      sync == "sync start" \in Events(S1)
      able(i) == S1.lanes[i].running /\ S1.lanes[i].freezeUntil = 0
      quiet == S1.mode = "NORMAL" /\ Events(S1) \subseteq {"watch"}
      first == (\A i \in Lanes : ~h.wOk[i]) /\ (\E i \in Lanes : S1.lanes[i].hArmed)
  IN  [pulses |-> [i \in Lanes |-> IF fired(i) /\ h.pulses[i] < 2
                                   THEN h.pulses[i] + 1 ELSE h.pulses[i]],
       offAt |-> [i \in Lanes |-> IF fired(i) THEN S1.lanes[i].coilOffAt ELSE h.offAt[i]],
       prevOffAt |-> [i \in Lanes |-> IF fired(i) THEN h.offAt[i] ELSE h.prevOffAt[i]],
       polAt |-> [i \in Lanes |-> IF fired(i) THEN S1.lanes[i].IN1 ELSE h.polAt[i]],
       prevPol |-> [i \in Lanes |-> IF fired(i) THEN h.polAt[i] ELSE h.prevPol[i]],
       syncSince |-> [i \in Lanes |-> IF fired(i) THEN FALSE ELSE h.syncSince[i] \/ sync],
       syncBetween |-> [i \in Lanes |-> IF fired(i) THEN h.syncSince[i] \/ sync
                                        ELSE h.syncBetween[i]],
       hzBefore |-> [i \in Lanes |-> S.lanes[i].baseHz],
       lockHz |-> [i \in Lanes |-> IF sync THEN S.lanes[i].baseHz ELSE h.lockHz[i]],
       wLaunch |-> [i \in Lanes |-> IF first THEN S1.lanes[i].nextDue ELSE h.wLaunch[i]],
       wOk |-> [i \in Lanes |-> IF first THEN S1.lanes[i].hArmed /\ able(i) /\ quiet
                                ELSE h.wOk[i] /\ able(i) /\ quiet],
       wFired |-> [i \in Lanes |-> IF first THEN FALSE ELSE h.wFired[i] \/ fired(i)],
       ended |-> h.ended \/ (S.mode # "NORMAL" /\ S1.mode = "NORMAL")]

InitP(P) ==
  \E t0 \in P.clocks :
     LET S == Setup(t0)
     IN  /\ now = t0
         /\ mode = S.mode /\ lanes = S.lanes /\ g = S.g /\ ev = S.ev
         /\ elapsed = 0
         /\ hist = Hist0
         /\ starts = P.starts
         /\ free = P.free
         /\ pk = PickIdle

(* the dispatcher block runs in this pass: it consumes its rng(-500, 500) *)
Rolls(S, t) ==
  \E x \in Levels : considerEffect(BeginPass(S), t, [D0 EXCEPT !.tryU = x])
                      # considerEffect(BeginPass(S), t, D0)

ObserveLog(h, S, S1, t, o) ==
  LET l == LogAll([pick |-> -1, syncReleased |-> h.syncReleased,
                   pauseReleased |-> h.pauseReleased,
                   open |-> h.open, logOk |-> h.logOk], S1.ev)
  IN  [l EXCEPT !.pick = IF o.d.roll /\ Rolls(S, t) THEN o.d.r ELSE -1,
                !.syncReleased = h.syncReleased \/ "sync end" \in Events(S1),
                !.pauseReleased = h.pauseReleased \/ "pause end" \in Events(S1)]

(* One pass of loop(), P.tick ms after the previous one, with inputs o.     *)
(* For the first P.warm ms after setup() no glitch roll succeeds and every  *)
(* draw is at its default.  From then on, passes that begin in NORMAL mode  *)
(* are followed for P.horizon ms, passes that begin inside an effect for    *)
(* P.cap ms.                                                                *)
CanPass(P) ==
  elapsed + P.tick <= P.warm + (IF mode = "NORMAL" THEN P.horizon ELSE P.cap)

Pass(o, P) ==
  LET t == U32Add(now, P.tick)
      S1 == loop(State, t, o)
  IN  /\ CanPass(P)
      /\ now' = t
      /\ mode' = S1.mode /\ lanes' = S1.lanes /\ g' = S1.g /\ ev' = S1.ev
      /\ elapsed' = elapsed + P.tick
      /\ hist' = Observe(hist, State, S1) @@ ObserveLog(hist, State, S1, t, o)
      /\ pk' = pk

(* the pass with no glitch and every draw at its default *)
DefaultPass(P) ==
  /\ Pass(O0, P)
  /\ UNCHANGED <<starts, free>>

(* loop() is called again and again: a pass is made whenever one can be.    *)
(* DefaultPass(P) is enabled exactly when CanPass(P) holds and every pass   *)
(* advances the clock, so weak fairness of Ticks(P) is weak fairness of the *)
(* passes.                                                                  *)
Ticks(P) == CanPass(P) /\ elapsed' = elapsed + P.tick

(* a pass whose glitch roll succeeds: pickAndStartEffect runs *)
StartPass(P) ==
  /\ starts > 0
  /\ elapsed >= P.warm
  /\ Rolls(State, U32Add(now, P.tick))
  /\ \E r \in P.rs : \E d \in StartDraws(r, P) : Pass([O0 EXCEPT !.d = d], P)
  /\ starts' = starts - 1
  /\ free' = free

(* a pass without a glitch that draws other than the default levels *)
DrawPass(P) ==
  /\ free > 0
  /\ elapsed >= P.warm
  /\ LET t == U32Add(now, P.tick)
         ds == IF Rolls(State, t)
               THEN {[D0 EXCEPT !.tryU = x] : x \in Levels} ELSE {D0}
     IN  \E d \in ds : \E h \in HChoices(State, t, P) :
           \E w \in WChoices(State, t, d, h) :
              /\ [d |-> d, h |-> h, w |-> w] # O0
              /\ Pass([d |-> d, h |-> h, w |-> w], P)
  /\ free' = free - 1
  /\ starts' = starts

(******************************* model bounds ******************************)
(* ms between two passes of loop() *)
TickMs == 50
(* glitch rolls that succeed in a run, passes with non-default draws *)
MaxStarts == 1
MaxFree == 1
(* glitch rolls that succeed in a run of the long scenarios *)
MaxChain == 2
(* NORMAL passes followed in the cooldown scenario *)
CoolElapsed == 20000
(* passes that come late in the scenario of late passes *)
MaxStalls == 1
(* passes are followed DrainElapsed ms while a lane is owed burst pulses *)
DrainElapsed == 12000
(* millis() at setup(), after its delay(50) *)
BootClock == 50
(* a first minute or so without a glitch: long enough for every cooldown *)
WarmMs == 59500
(* NORMAL passes are followed MaxElapsed ms (WatchElapsed ms in the         *)
(* watchdog scenario), an effect under way MaxEffect ms                     *)
MaxElapsed == 6000
WatchElapsed == 24000
MaxEffect == 70000

AllDraws == {0} \cup {cumW[i] : i \in 0..(NEFF - 1)}

(* every effect and glitch after the first minute, cut at MaxElapsed *)
PMain == [tick |-> TickMs, warm |-> WarmMs, horizon |-> MaxElapsed, cap |-> MaxElapsed,
          starts |-> MaxStarts, free |-> MaxFree,
          clocks |-> {BootClock},
          rs |-> AllDraws, picks |-> {0, NLANES - 1}]

Init == InitP(PMain)
Idle == DefaultPass(PMain)
Glitch == StartPass(PMain)
Draw == DrawPass(PMain)
Next == Idle \/ Glitch \/ Draw
Spec == Init /\ [][Next]_vars

(* every effect followed to its end, and what the dispatcher starts next *)
PLong == [tick |-> TickMs, warm |-> WarmMs, horizon |-> MaxElapsed, cap |-> MaxEffect,
          starts |-> MaxChain, free |-> 0,
          clocks |-> {BootClock},
          rs |-> AllDraws, picks |-> {0, NLANES - 1}]

InitLong == InitP(PLong)
IdleLong == DefaultPass(PLong)
GlitchLong == StartPass(PLong)
NextLong == IdleLong \/ GlitchLong
SpecLong == InitLong /\ [][NextLong]_vars

(* one effect, started by the first roll after the warm-up, to its end *)
PEnd == [tick |-> TickMs, warm |-> WarmMs, horizon |-> TickMs, cap |-> MaxEffect,
         starts |-> MaxStarts, free |-> 0,
         clocks |-> {BootClock},
         rs |-> AllDraws, picks |-> {0, NLANES - 1}]

InitEnd == InitP(PEnd)
IdleEnd == DefaultPass(PEnd)
GlitchEnd == StartPass(PEnd)
NextEnd == IdleEnd \/ GlitchEnd
SpecEnd == InitEnd /\ [][NextEnd]_vars /\ WF_elapsed(Ticks(PEnd))

(* a Stagger Blackout and a Long Pause back to back, then silence *)
PWatch == [tick |-> TickMs, warm |-> WarmMs, horizon |-> WatchElapsed, cap |-> MaxEffect,
           starts |-> MaxChain, free |-> 0,
           clocks |-> {BootClock},
           rs |-> {0, cumW[0]}, picks |-> {0, NLANES - 1}]

InitWatch == InitP(PWatch)
IdleWatch == DefaultPass(PWatch)
GlitchWatch == StartPass(PWatch)
NextWatch == IdleWatch \/ GlitchWatch
SpecWatch == InitWatch /\ [][NextWatch]_vars

(* right after boot, a subtle glitch followed by a Counterbalance *)
PCounter == [tick |-> TickMs, warm |-> 0, horizon |-> MaxElapsed, cap |-> MaxEffect,
             starts |-> MaxChain, free |-> 0,
             clocks |-> {BootClock},
             rs |-> {cumW[5], cumW[10]}, picks |-> {0, NLANES - 1}]

InitCounter == InitP(PCounter)
IdleCounter == DefaultPass(PCounter)
GlitchCounter == StartPass(PCounter)
NextCounter == IdleCounter \/ GlitchCounter
SpecCounter == InitCounter /\ [][NextCounter]_vars

(* the first roll after the warm-up, with draws at and next to every        *)
(* boundary of the weight table                                             *)
EdgeDraws == {0, 9999} \cup {cumW[k] - x : k \in 0..(NEFF - 1), x \in {0, 1}}

PEdge == [tick |-> TickMs, warm |-> WarmMs, horizon |-> TickMs, cap |-> TickMs,
          starts |-> MaxStarts, free |-> 0,
          clocks |-> {BootClock},
          rs |-> EdgeDraws, picks |-> {0, NLANES - 1}]

InitEdge == InitP(PEdge)
IdleEdge == DefaultPass(PEdge)
GlitchEdge == StartPass(PEdge)
NextEdge == IdleEdge \/ GlitchEdge
SpecEdge == InitEdge /\ [][NextEdge]_vars

(* Sync-Lock or Long Pause after the warm-up, its release, and glitch rolls *)
(* that ask for it again, followed CoolElapsed ms of NORMAL passes          *)
PCool == [tick |-> TickMs, warm |-> WarmMs, horizon |-> CoolElapsed, cap |-> MaxEffect,
          starts |-> MaxChain, free |-> 0,
          clocks |-> {BootClock},
          rs |-> {0, cumW[1]}, picks |-> {0, NLANES - 1}]

InitCool == InitP(PCool)
IdleCool == DefaultPass(PCool)
GlitchCool == StartPass(PCool)
NextCool == IdleCool \/ GlitchCool
SpecCool == InitCool /\ [][NextCool]_vars

(* The search for two distinct lanes, for a configuration of n lanes        *)
(* (LANES[] may list 1..4 of the lanes A..D).  pk.kind says who searches:   *)
(* "counter" and "snap" have drawn pk.a = rng(0, n-1) and repeat            *)
(*    do { b = rng(0, n-1); } while (b == a);                               *)
(* "storm" calls pickTwoDistinct once and falls back to lane 0.  pk.spin is *)
(* the parity of the loop iterations made, pk.done that the search has      *)
(* returned.                                                                *)
pickTwoDistinct(n, i, k) ==
  IF n < 2 THEN [ok |-> FALSE, i |-> -1, j |-> -1]
  ELSE [ok |-> TRUE, i |-> i, j |-> (i + 1 + k) % n]

PairStarts ==
  {[kind |-> kd, n |-> n, a |-> a, b |-> -1, spin |-> FALSE, done |-> FALSE] :
      kd \in {"counter", "snap"}, n \in 1..NLANES, a \in 0..(NLANES - 1)}
  \cup {[kind |-> "storm", n |-> n, a |-> -1, b |-> -1, spin |-> FALSE, done |-> FALSE] :
      n \in 1..NLANES}

InitPair ==
  LET S == Setup(BootClock)
  IN  /\ now = BootClock
      /\ mode = S.mode /\ lanes = S.lanes /\ g = S.g /\ ev = S.ev
      /\ elapsed = 0
      /\ hist = Hist0
      /\ starts = 0
      /\ free = 0
      /\ pk \in {p \in PairStarts : p.a < p.n}

(* one iteration of the do-while loop of startCounterbalance / startPhaseSnap *)
DrawOther ==
  /\ pk.kind \in {"counter", "snap"}
  /\ ~pk.done
  /\ \E x \in 0..(pk.n - 1) :
        pk' = [pk EXCEPT !.b = x, !.spin = ~pk.spin, !.done = (x # pk.a)]
  /\ UNCHANGED <<now, mode, lanes, g, ev, elapsed, hist, starts, free>>

(* the lane choice of an Email Storm tick *)
StormPick ==
  /\ pk.kind = "storm"
  /\ ~pk.done
  /\ \E i \in 0..(pk.n - 1) : \E k \in 0..(IF pk.n < 2 THEN 0 ELSE pk.n - 2) :
        LET r == pickTwoDistinct(pk.n, i, k)
        IN  pk' = [pk EXCEPT !.a = IF r.ok THEN r.i ELSE 0,
                             !.b = IF r.ok THEN r.j ELSE -1,
                             !.done = TRUE]
  /\ UNCHANGED <<now, mode, lanes, g, ev, elapsed, hist, starts, free>>

NextPair == DrawOther \/ StormPick
SpecPair == InitPair /\ [][NextPair]_vars /\ WF_pk(NextPair)

(* The program 49.7 days after setup(), as millis() is about to wrap: a     *)
(* state of a long run in which no effect or glitch is under way.  Each     *)
(* lane is idle between two pulses (coil off, nextFree = last pulse + 240,  *)
(* the polarity pins as the last pulse left them) and due at its setup()    *)
(* phase; the dispatcher's next try (lastTry) is 100 ms away; Sync-Lock     *)
(* and Long Pause were last released a minute ago.                          *)
Cruise(t0) ==
  [mode |-> "NORMAL",
   lanes |-> [i \in Lanes |->
                LET due == U32Add(t0, Rng(0, 500, i % RngLevels))
                    L == Lane(BASE_HZ[i], due, t0)
                IN  [L EXCEPT !.nextFree = U32Add(due, (PULSE_ON_MS + MIN_OFF_MS) - periodMs(L)),
                              !.IN1 = TRUE]],
   g |-> [Globals0 EXCEPT !.lastAnyPulseAt = U32Add(t0, -TickMs),
                          !.lastTry = U32Add(t0, 100),
                          !.lastSyncEnd = U32Add(t0, -60000),
                          !.lastLongPauseEnd = U32Add(t0, -60000)],
   ev |-> <<>>]

(* the first pass is at millis() = 2^32 - PULSE_ON_MS, resp. 2^31 - PULSE_ON_MS *)
WrapClocks == {-(PULSE_ON_MS + TickMs), MaxI32 - (PULSE_ON_MS + TickMs) + 1}

PWrap == [tick |-> TickMs, warm |-> 0, horizon |-> MaxElapsed, cap |-> MaxEffect,
          starts |-> MaxStarts, free |-> 0,
          clocks |-> WrapClocks,
          rs |-> {0}, picks |-> {0, NLANES - 1}]

InitWrap ==
  \E t0 \in PWrap.clocks :
     LET S == Cruise(t0)
     IN  /\ now = t0
         /\ mode = S.mode /\ lanes = S.lanes /\ g = S.g /\ ev = S.ev
         /\ elapsed = 0
         /\ hist = [Hist0 EXCEPT !.syncReleased = TRUE, !.pauseReleased = TRUE]
         /\ starts = PWrap.starts
         /\ free = PWrap.free
         /\ pk = PickIdle
IdleWrap == DefaultPass(PWrap)
GlitchWrap == StartPass(PWrap)
NextWrap == IdleWrap \/ GlitchWrap
SpecWrap == InitWrap /\ [][NextWrap]_vars

(* the first seconds after setup(): glitch rolls that ask for a Sync-Lock   *)
(* or a Long Pause from the very first pass on                              *)
PBoot == [PCool EXCEPT !.warm = 0]

InitBoot == InitP(PBoot)
IdleBoot == DefaultPass(PBoot)
GlitchBoot == StartPass(PBoot)
NextBoot == IdleBoot \/ GlitchBoot
SpecBoot == InitBoot /\ [][NextBoot]_vars

(* loop() is called again as soon as it returns, but nothing in the program *)
(* bounds the time between two passes: a pass may read millis() a long time *)
(* after the previous one.  The first seconds after setup() with passes     *)
(* every TickMs ms, of which MaxStalls come late by one of Stalls ms.       *)
Stalls == {1500, 5000}

PLate == [tick |-> TickMs, warm |-> 0, horizon |-> MaxElapsed, cap |-> MaxElapsed,
          starts |-> 0, free |-> MaxStalls,
          clocks |-> {BootClock},
          rs |-> {}, picks |-> {0, NLANES - 1}]

InitLate == InitP(PLate)
IdleLate == DefaultPass(PLate)
StallLate ==
  /\ free > 0
  /\ \E gap \in Stalls : \E u \in Levels :
        Pass([O0 EXCEPT !.w = [k \in Lanes |-> u]], [PLate EXCEPT !.tick = gap])
  /\ free' = free - 1
  /\ starts' = starts
NextLate == IdleLate \/ StallLate
SpecLate == InitLate /\ [][NextLate]_vars

(* Email Storms and subtle glitches in the first seconds after setup(), and *)
(* the passes that follow for as long as a lane is owed burst pulses        *)
PBurst == [tick |-> TickMs, warm |-> 0, horizon |-> MaxElapsed, cap |-> MaxEffect,
           starts |-> MaxChain, free |-> 0,
           clocks |-> {BootClock},
           rs |-> {cumW[6], cumW[10]}, picks |-> {0, NLANES - 1}]
PDrain == [PBurst EXCEPT !.horizon = DrainElapsed]
BurstOwed == \E i \in Lanes : lanes[i].burstRemain > 0

InitBurst == InitP(PBurst)
IdleBurst == DefaultPass(PBurst)
GlitchBurst == StartPass(PBurst)
DrainBurst == BurstOwed /\ ~CanPass(PBurst) /\ DefaultPass(PDrain)
NextBurst == IdleBurst \/ GlitchBurst \/ DrainBurst
TicksBurst ==
  /\ CanPass(PBurst) \/ (BurstOwed /\ CanPass(PDrain))
  /\ elapsed' = elapsed + TickMs
SpecBurst == InitBurst /\ [][NextBurst]_vars /\ WF_elapsed(TicksBurst)

(********************************* claims **********************************)
(* C1 -- Minimum-off law.  Whenever a lane is energized (by the autonomous  *)
(* scheduler, a burst or a Beat step, in any mode) the clock has reached    *)
(* the nextFree the lane carried, and when the lane has pulsed before, that *)
(* nextFree is the previous pulse's coilOffAt plus MIN_OFF_MS, so at least  *)
(* MIN_OFF_MS lie between the previous pulse's off time and this pulse.     *)
C1_MinimumOff ==
  \A i \in Lanes :
     lanes[i].hFired =>
       /\ SDiff(now, lanes[i].hGate) >= 0
       /\ hist.pulses[i] = 2 =>
            /\ lanes[i].hGate = U32Add(hist.prevOffAt[i], MIN_OFF_MS)
            /\ SDiff(now, hist.prevOffAt[i]) >= MIN_OFF_MS

(* a burst pulse fired on the first pass its lane was free again *)
C1_Witness ==
  \E i \in Lanes :
     /\ lanes[i].hFired /\ hist.pulses[i] = 2
     /\ lanes[i].burstRemain > 0
     /\ SDiff(now, lanes[i].hGate) < TickMs

(* C2 -- Mode exclusivity.  The mode register changes only from NORMAL to   *)
(* an effect or from an effect to NORMAL, never from one effect to another; *)
(* a timed effect starts only in a pass that began in NORMAL; a pass that   *)
(* ran Reorg Swap or a subtle glitch began and ended in NORMAL.             *)
StartEvents == {"beat start", "sync start", "pause start", "stagger start",
                "accel start", "decel start", "counter start", "storm start",
                "scope start", "snap start"}
InstantEvents == {"reorg", "glitch nudge", "glitch freeze", "glitch burst"}

C2_ModeExclusive ==
  [][/\ mode' # mode => (mode = "NORMAL" \/ mode' = "NORMAL")
     /\ (\E k \in 1..Len(ev') : ev'[k] \in StartEvents) =>
          (mode = "NORMAL" /\ mode' # "NORMAL")
     /\ (\E k \in 1..Len(ev') : ev'[k] \in InstantEvents) =>
          (mode = "NORMAL" /\ mode' = "NORMAL")]_vars

(* an effect is running after an earlier effect ran to its end *)
C2_Witness == hist.ended /\ mode # "NORMAL" /\ starts = 0

(* C3 -- Every effect terminates.  While the loop keeps making passes,      *)
(* whenever the mode is not NORMAL it is NORMAL again at some later pass.   *)
C3_EffectsEnd == (mode # "NORMAL") ~> (mode = "NORMAL")

(* the longest effect, Scope Creep, has just ended *)
C3_Witness == mode = "NORMAL" /\ "scope end" \in Events(State)

(* C4 -- Stagger ordering.  During a Stagger Blackout started at s, lane i  *)
(* is able to pulse again (running and not frozen) from                     *)
(* s + STAGGER_SILENCE_MS + STAGGER_STOP_STEP_MS * (NLANES - 1 - i) on,     *)
(* that is from modeEndsAt - STAGGER_STOP_STEP_MS * i on.                   *)
C4_StaggerOrdering ==
  mode = "STAGGER_BLACKOUT" =>
    \A i \in Lanes :
       SDiff(now, U32Add(g.modeEndsAt, -(STAGGER_STOP_STEP_MS * i))) >= 0 =>
         (lanes[i].running /\ lanes[i].freezeUntil = 0)

(* C5 -- Liveness watchdog honoured.  Once the liveness check has re-armed  *)
(* a lane's nextDue, and while the mode stays NORMAL, nothing new starts    *)
(* and the lane stays running and unfrozen, the lane has fired by the pass  *)
(* at which that nextDue is reached.                                        *)
C5_WatchdogHonoured ==
  \A i \in Lanes :
     (hist.wOk[i] /\ SDiff(now, hist.wLaunch[i]) >= 0) => hist.wFired[i]

(* C6 -- Polarity alternation, as stated: on each lane the last two fired   *)
(* pulses asserted opposite levels on IN1 (and so on IN2).                  *)
C6_Alternates ==
  \A i \in Lanes : hist.pulses[i] = 2 => hist.polAt[i] # hist.prevPol[i]

(* C6, amended -- on each lane the last two fired pulses asserted opposite  *)
(* levels unless a Sync-Lock started between them; every pulse drives IN1   *)
(* and IN2 to opposite levels; the first pulse after a Sync-Lock start      *)
(* drives IN1 low.                                                          *)
C6_AlternatesUnlessSync ==
  \A i \in Lanes :
     /\ (hist.pulses[i] = 2 /\ ~hist.syncBetween[i]) => hist.polAt[i] # hist.prevPol[i]
     /\ hist.pulses[i] > 0 => (lanes[i].IN1 = hist.polAt[i] /\ lanes[i].IN2 # lanes[i].IN1)
     /\ (hist.pulses[i] = 2 /\ hist.syncBetween[i]) => ~hist.polAt[i]

(* a lane's second pulse inside a Sync-Lock, opposite to its first *)
C6_Witness ==
  \E i \in Lanes :
     /\ mode = "SYNC_LOCK" /\ lanes[i].hFired
     /\ hist.pulses[i] = 2 /\ ~hist.syncBetween[i]
     /\ hist.polAt[i] /\ ~hist.prevPol[i]

(* C7 -- Accel/Decel ramp.  In ACCEL or DECEL mode, e ms after the start    *)
(* with 0 <= e < D, every lane's nudgeMul is 1 + (rampTo - 1) * e / D and   *)
(* lies between 1 and rampTo (1.125 at e = 5000 for rampTo = 1.25); in the  *)
(* pass that ends the ramp e >= D, the mode is NORMAL and every nudgeMul    *)
(* is 1.                                                                    *)
Pct(m) == (m - One) \div (MulScale \div 100)

C7_Ramp ==
  LET e == SDiff(now, g.rampStart)
      D == IF mode = "ACCEL" THEN ACCEL_DUR_MS ELSE DECEL_DUR_MS
  IN  /\ mode \in {"ACCEL", "DECEL"} =>
           /\ 0 <= e /\ e < D
           /\ g.rampEnd = U32Add(g.rampStart, D)
           /\ \A i \in Lanes :
                /\ (lanes[i].nudgeMul - One) * (D \div 100)
                     = Pct(g.rampTo) * e * (MulScale \div 10000)
                /\ \/ One <= lanes[i].nudgeMul /\ lanes[i].nudgeMul <= g.rampTo
                   \/ g.rampTo <= lanes[i].nudgeMul /\ lanes[i].nudgeMul <= One
           /\ (mode = "ACCEL" /\ g.rampTo = Mul100(125) /\ e = 5000) =>
                \A i \in Lanes : 8 * lanes[i].nudgeMul = 9 * One
      /\ ({"accel end", "decel end"} \cap Events(State) # {}) =>
           /\ mode = "NORMAL"
           /\ SDiff(now, g.rampEnd) >= 0
           /\ \A i \in Lanes : lanes[i].nudgeMul = One

(* half way up an Accelerando to 1.25 *)
C7_Witness ==
  /\ mode = "ACCEL" /\ g.rampTo = Mul100(125)
  /\ SDiff(now, g.rampStart) = 5000
  /\ \A i \in Lanes : 8 * lanes[i].nudgeMul = 9 * One

(* C8 -- Sync-Lock hold and release.  In SYNC_LOCK mode every lane's        *)
(* baseHz * nudgeMul is SYNC_BPM / 60 Hz and its period 60000 / SYNC_BPM    *)
(* ms; in the pass that releases the lock every lane's baseHz is the value  *)
(* it had when the pass that started the lock began.                        *)
C8_SyncLock ==
  /\ mode = "SYNC_LOCK" =>
       \A i \in Lanes :
          /\ lanes[i].baseHz * 60 = SYNC_BPM * HzScale
          /\ lanes[i].nudgeMul = One
          /\ periodMs(lanes[i]) * SYNC_BPM = 60000
  /\ "sync end" \in Events(State) =>
       \A i \in Lanes : lanes[i].baseHz = hist.lockHz[i]

(* a Sync-Lock released onto frequencies a Reorg Swap had rotated before it *)
C8_Witness ==
  /\ "sync end" \in Events(State)
  /\ hist.lockHz = [i \in Lanes |-> BASE_HZ[(i + 1) % NLANES]]
  /\ \A i \in Lanes : lanes[i].baseHz = hist.lockHz[i]

(* C9 -- Counterbalance ramp.  In COUNTERBAL mode, after every pass, the    *)
(* up lane's nudgeMul is 1 + delta * e / D, the down lane's 1 - delta * e / D *)
(* and every other lane's 1, e being the time since the start, at most D.   *)
C9_CounterRamp ==
  mode = "COUNTERBAL" =>
    LET e == Progress(now, g.cbStart, COUNTERBAL_DUR_MS)
        d == (g.cbDelta \div COUNTERBAL_DUR_MS) * e
    IN  \A i \in Lanes :
           lanes[i].nudgeMul = IF i = g.cbUp THEN One + d
                               ELSE IF i = g.cbDown THEN One - d ELSE One

(* C10 -- Reorg Swap.  Applied to any reachable state, reorgSwap gives lane *)
(* i the baseHz of lane i+1 and the last lane that of lane 0, sets every    *)
(* nextDue to now + the new period, and leaves the mode and every other     *)
(* lane field alone; the configured 1.00, 0.98, 1.02, 1.01 become 0.98,     *)
(* 1.02, 1.01, 1.00; and after a pass that ran it the lanes hold the        *)
(* rotation of what they held when the pass began.                          *)
C10_ReorgRotates ==
  LET t == U32Add(now, TickMs)
      S == BeginPass(State)
      R == reorgSwap(S, t)
  IN  /\ R.mode = S.mode /\ R.g = S.g
      /\ \A i \in Lanes :
           /\ R.lanes[i].baseHz = S.lanes[(i + 1) % NLANES].baseHz
           /\ R.lanes[i].nextDue = U32Add(t, periodMs(R.lanes[i]))
           /\ [R.lanes[i] EXCEPT !.baseHz = 0, !.nextDue = 0]
                = [S.lanes[i] EXCEPT !.baseHz = 0, !.nextDue = 0]
      /\ (\A i \in Lanes : S.lanes[i].baseHz = BASE_HZ[i]) =>
           <<R.lanes[0].baseHz, R.lanes[1].baseHz, R.lanes[2].baseHz, R.lanes[3].baseHz>>
             = <<Hz100(98), Hz100(102), Hz100(101), Hz100(100)>>
      /\ "reorg" \in Events(State) =>
           \A i \in Lanes : lanes[i].baseHz = hist.hzBefore[(i + 1) % NLANES]

(* the pass that swapped the configured frequencies *)
C10_Witness ==
  /\ "reorg" \in Events(State)
  /\ hist.hzBefore = BASE_HZ
  /\ lanes[0].baseHz = Hz100(98) /\ lanes[NLANES - 1].baseHz = Hz100(100)
  /\ \A i \in Lanes : lanes[i].nextDue = U32Add(now, periodMs(lanes[i]))

(* C11 -- Weight-table completeness.  The last boundary cumW[NEFF] is 1.0;  *)
(* every draw in 0..9999 (r = draw / 10000) lies in exactly one of the      *)
(* NEFF + 1 buckets [cumW[k-1], cumW[k]); and a pass that called            *)
(* pickAndStartEffect with draw r ran the named effect k exactly when       *)
(* cumW[k-1] <= r < cumW[k], the subtle glitch exactly when                 *)
(* r >= cumW[NEFF-1], and nothing else.                                     *)
Named == <<"pause start", "stagger start", "sync start", "beat start",
           "accel start", "decel start", "counter start", "storm start",
           "snap start", "scope start", "reorg">>
Subtle == {"glitch nudge", "glitch freeze", "glitch burst"}
CumBelow(k) == IF k = 0 THEN 0 ELSE cumW[k - 1]

C11_WeightTable ==
  /\ cumW[NEFF] = 10000
  /\ elapsed = 0 =>
       \A r \in 0..9999 :
          Cardinality({k \in 0..NEFF : CumBelow(k) <= r /\ r < cumW[k]}) = 1
  /\ hist.pick >= 0 =>
       /\ \A k \in 0..(NEFF - 1) :
            (Named[k + 1] \in Events(State))
              <=> (CumBelow(k) <= hist.pick /\ hist.pick < cumW[k])
       /\ (Subtle \cap Events(State) # {}) <=> hist.pick >= cumW[NEFF - 1]
       /\ Len(ev) = 1

(* a draw exactly on the first boundary ran the second effect *)
C11_Witness ==
  hist.pick = cumW[0] /\ ev = <<"stagger start">>

(* C12 -- Cooldown no-op.  A Sync-Lock (Long Pause) start requested less    *)
(* than SYNC_COOLDOWN_MS (LONG_PAUSE_COOLDOWN) after the last Sync-Lock     *)
(* (Long Pause) release does nothing: the pass ends exactly as the pass     *)
(* without a glitch would have, the mode is still NORMAL and no start       *)
(* event is logged.                                                         *)
SyncDraw == [O0 EXCEPT !.d.roll = TRUE, !.d.r = cumW[1]]
PauseDraw(u) == [O0 EXCEPT !.d.roll = TRUE, !.d.r = 0, !.d.u = u]
SyncCooling(t) == hist.syncReleased /\ SDiff(t, g.lastSyncEnd) < SYNC_COOLDOWN_MS
PauseCooling(t) == hist.pauseReleased /\ SDiff(t, g.lastLongPauseEnd) < LONG_PAUSE_COOLDOWN

C12_CooldownNoOp ==
  LET t == U32Add(now, TickMs)
  IN  /\ (mode = "NORMAL" /\ Rolls(State, t) /\ SyncCooling(t))
           => loop(State, t, SyncDraw) = loop(State, t, O0)
      /\ (mode = "NORMAL" /\ Rolls(State, t) /\ PauseCooling(t))
           => \A u \in Levels : loop(State, t, PauseDraw(u)) = loop(State, t, O0)
      /\ (hist.pick >= cumW[1] /\ hist.pick < cumW[2] /\ SyncCooling(now))
           => mode = "NORMAL" /\ Events(State) \cap StartEvents = {}
      /\ (hist.pick >= 0 /\ hist.pick < cumW[0] /\ PauseCooling(now))
           => mode = "NORMAL" /\ Events(State) \cap StartEvents = {}

(* a Sync-Lock was released and is asked for again inside its cooldown *)
C12_Witness ==
  hist.pick = cumW[1] /\ SyncCooling(now) /\ mode = "NORMAL"


C14_SingleLaneReturns == (pk.n = 1 /\ pk.kind # "none") ~> pk.done


(* C15 -- Bounded energize time across clock wraparound.  At the end of     *)
(* every pass a lane's drive is enabled only if the lane has pulsed and the *)
(* clock has not reached the end time t + PULSE_ON_MS of its last pulse.    *)
C15_OffOnTime ==
  \A i \in Lanes :
     lanes[i].EN => hist.pulses[i] > 0 /\ SDiff(now, hist.offAt[i]) < 0


(* C16 -- Freeze silences a lane.  A lane whose freezeUntil is set and      *)
(* still ahead of the clock when a pass ends was not energized by that      *)
(* pass and has nextDue = now + 10; and the lane scheduler's step on a      *)
(* frozen lane of any reachable state does not energize it, sets            *)
(* nextDue = now + 10 and leaves burstRemain as it was, whatever            *)
(* burstRemain and nextDue are.                                             *)
Frozen(L, t) == L.freezeUntil # 0 /\ SDiff(t, L.freezeUntil) < 0

C16_FreezeSilences ==
  /\ elapsed > 0 =>
       \A i \in Lanes :
          Frozen(lanes[i], now)
            => ~lanes[i].hFired /\ lanes[i].nextDue = U32Add(now, 10)
  /\ LET t == U32Add(now, TickMs)
         S == BeginPass(State)
     IN  \A i \in Lanes : \A u \in Levels :
            Frozen(S.lanes[i], t)
              => LET R == laneStep(S.lanes[i], t, u)
                 IN  /\ ~R.hFired
                     /\ R.EN => S.lanes[i].EN
                     /\ R.nextDue = U32Add(t, 10)
                     /\ R.burstRemain = S.lanes[i].burstRemain

(* a frozen lane with pulses of a burst left, whose turn has come *)
C16_Witness ==
  /\ elapsed > 0
  /\ \E i \in Lanes : /\ Frozen(lanes[i], now)
                      /\ lanes[i].burstRemain > 0
                      /\ SDiff(now, lanes[i].nextFree) >= 0


(* C17 -- Long Pause is silent.  At the end of every pass made in           *)
(* LONG_PAUSE mode no lane was energized by the pass, and a lane's drive is *)
(* enabled only while the clock has not reached the end time of the pulse   *)
(* that was in progress when the pause started.                             *)
C17_PauseSilent ==
  mode = "LONG_PAUSE" =>
    \A i \in Lanes :
       /\ ~lanes[i].hFired
       /\ lanes[i].EN => hist.pulses[i] > 0 /\ SDiff(now, hist.offAt[i]) < 0


(* C18 -- Cooldown applies only after a release.  A pass that asked for a   *)
(* Sync-Lock (Long Pause) while that effect had never been released since   *)
(* setup(), or was last released at least SYNC_COOLDOWN_MS                  *)
(* (LONG_PAUSE_COOLDOWN) before, ends in SYNC_LOCK (LONG_PAUSE) mode.       *)
C18_StartsUnlessCooling ==
  /\ (hist.pick >= cumW[1] /\ hist.pick < cumW[2]
        /\ (~hist.syncReleased \/ SDiff(now, g.lastSyncEnd) >= SYNC_COOLDOWN_MS))
       => mode = "SYNC_LOCK"
  /\ (hist.pick >= 0 /\ hist.pick < cumW[0]
        /\ (~hist.pauseReleased \/ SDiff(now, g.lastLongPauseEnd) >= LONG_PAUSE_COOLDOWN))
       => mode = "LONG_PAUSE"


(* C19 -- Base frequencies are conserved.  At the end of every pass that    *)
(* leaves the mode NORMAL the lanes' baseHz values are the configured       *)
(* BASE_HZ values rotated by some number of places.                         *)
C19_BaseHzRotation ==
  mode = "NORMAL" =>
    \E k \in 0..(NLANES - 1) :
       \A i \in Lanes : lanes[i].baseHz = BASE_HZ[(i + k) % NLANES]

(* a Reorg Swap has rotated the tempos and a later effect that overwrites   *)
(* baseHz has run to its end                                                *)
C19_Witness ==
  /\ mode = "NORMAL"
  /\ hist.ended
  /\ (Events(State) \cap {"sync end", "snap end", "scope end"}) # {}
  /\ lanes[0].baseHz = BASE_HZ[1]


(* C20 -- Clear transients at start.  Whatever timed effect the dispatcher  *)
(* starts from a reachable NORMAL state, the start leaves every lane with   *)
(* burstRemain = 0, nudgeMul = 1.0, nudgeUntil unset and freezeUntil unset  *)
(* (Long Pause and Stagger Blackout then set their own freezeUntil).        *)
Cleared(L, m) ==
  /\ L.burstRemain = 0
  /\ L.nudgeMul = One
  /\ L.nudgeUntil = 0
  /\ L.freezeUntil = 0 \/ m \in {"LONG_PAUSE", "STAGGER_BLACKOUT"}

C20_StartClears ==
  LET t == U32Add(now, TickMs)
      S == BeginPass(State)
  IN  dispatcherDue(S, t) =>
        \A r \in AllDraws : \A d \in StartDraws(r, PCounter) :
           LET R == considerEffect(S, t, d)
           IN  R.mode # "NORMAL" => \A i \in Lanes : Cleared(R.lanes[i], R.mode)


(* C21 -- Lanes are stopped only by the effects that own them.  Whenever a  *)
(* lane has running = false the mode is BEAT, LONG_PAUSE or                 *)
(* STAGGER_BLACKOUT; in every other mode every lane is running.             *)
C21_StoppedOnlyByOwner ==
  (\E i \in Lanes : ~lanes[i].running)
     => mode \in {"BEAT", "LONG_PAUSE", "STAGGER_BLACKOUT"}

(* the pass in which a stopping effect ends: the mode is NORMAL again and   *)
(* every lane has been released                                             *)
C21_Witness ==
  /\ (Events(State) \cap {"beat end", "pause end", "stagger end"}) # {}
  /\ mode = "NORMAL"
  /\ \A i \in Lanes : lanes[i].running


(* C22 -- Autonomous rescheduling.  The lane scheduler's step at time t on  *)
(* a running lane L (not frozen, no burst owed) whose nextDue has passed:   *)
(* with the off-gate closed it does not fire and nextDue = nextFree; with   *)
(* the gate open it fires and nextDue is SchedDue(L, t, u): the previous    *)
(* nextDue + period + jitter when t - nextDue <= 4 * period, and            *)
(* t + period + jitter otherwise.  The step is applied to the lanes of      *)
(* every reachable state as the scheduler finds them, at the next regular   *)
(* pass and at a late one.                                                  *)
SchedTimes == {U32Add(now, d) : d \in {TickMs} \cup Stalls}
SchedInput(t) == livenessCheck(handleMode(loopMid(State, t, O0), t, H0, W0), t, W0)
SchedDue(L, t, u) ==
  LET p == periodMs(L)
      j == Rng(-JITTER_MS, JITTER_MS, u)
  IN  IF SDiff(t, L.nextDue) <= 4 * p THEN U32Add(L.nextDue, p + j)
      ELSE U32Add(t, p + j)
Autonomous(L, t) ==
  /\ L.running /\ L.freezeUntil = 0 /\ L.burstRemain = 0 /\ L.nudgeUntil = 0
  /\ SDiff(t, L.nextDue) >= 0

C22_Reschedule ==
  \A t \in SchedTimes :
   LET M == SchedInput(t)
   IN  \A i \in Lanes : \A u \in Levels :
     LET L == M.lanes[i]
         R == laneStep(L, t, u)
     IN  Autonomous(L, t) =>
           IF SDiff(t, L.nextFree) < 0
           THEN ~R.hFired /\ R.nextDue = L.nextFree
           ELSE R.hFired /\ R.nextDue = SchedDue(L, t, u)

(* C22 as amended: ... and when the nextDue so computed is still not after  *)
(* t, the lane does not fire a second time in the pass and nextDue becomes  *)
(* the nextFree the pulse has just set, t + PULSE_ON_MS + MIN_OFF_MS.       *)
C22_RescheduleOrDefer ==
  \A t \in SchedTimes :
   LET M == SchedInput(t)
   IN  \A i \in Lanes : \A u \in Levels :
     LET L == M.lanes[i]
         R == laneStep(L, t, u)
     IN  Autonomous(L, t) =>
           IF SDiff(t, L.nextFree) < 0
           THEN ~R.hFired /\ R.nextDue = L.nextFree
           ELSE /\ R.hFired
                /\ R.nextFree = U32Add(t, PULSE_ON_MS + MIN_OFF_MS)
                /\ R.nextDue = IF SDiff(t, SchedDue(L, t, u)) < 0
                               THEN SchedDue(L, t, u) ELSE R.nextFree

(* a late pass fired a lane that was more than one period behind: its       *)
(* nextDue is the nextFree of the pulse just fired                          *)
C22_Witness ==
  \E i \in Lanes : /\ lanes[i].hFired
                   /\ lanes[i].nextDue = lanes[i].nextFree
                   /\ lanes[i].nextFree = U32Add(now, PULSE_ON_MS + MIN_OFF_MS)


(* C23 -- Bursts drain exactly.  In a pass that neither calls               *)
(* pickAndStartEffect nor runs the Email Storm handler (the two places that *)
(* grant or clear bursts), a lane's burstRemain either stays as it is, and  *)
(* then the lane does not fire if it is owed a pulse, or drops by one from  *)
(* a positive value, and then the lane has fired; in the other passes the   *)
(* same holds from the value granted.  burstRemain is never negative, and   *)
(* a lane that is owed burst pulses eventually is owed none.                *)
BurstStep(b, b1, fired) ==
  \/ b1 = b /\ (b > 0 => ~fired)
  \/ b > 0 /\ b1 = b - 1 /\ fired

BurstPass ==
  \A i \in Lanes :
     /\ lanes'[i].burstRemain >= 0
     /\ \/ BurstStep(lanes[i].burstRemain, lanes'[i].burstRemain, lanes'[i].hFired)
        \/ /\ hist'.pick >= 0 \/ mode = "EMAIL_STORM"
           /\ \E k \in 0..BURST_MAX_PULSES :
                 BurstStep(k, lanes'[i].burstRemain, lanes'[i].hFired)

C23_BurstsDrain ==
  /\ [][BurstPass]_vars
  /\ \A i \in Lanes : (lanes[i].burstRemain > 0) ~> (lanes[i].burstRemain = 0)

(* the Email Storm is over and a lane fires the last pulse it was granted *)
C23_Witness ==
  /\ mode = "NORMAL" /\ hist.ended
  /\ \E i \in Lanes : /\ lanes[i].hFired
                      /\ lanes[i].burstRemain = 0
                      /\ lanes[i].nextDue = U32Add(now, BURST_TARGET_MS)


(* C24 -- Beat life cycle.  A Beat starts at step 0 of its first bar, with  *)
(* every lane stopped and none fired by the pass that starts it.  A         *)
(* pass in BEAT mode whose time has not reached nextStepAt processes no     *)
(* step and fires no lane; a pass whose time has reached it processes       *)
(* exactly one step and fires only lanes the pattern marks for that step.   *)
(* The pass that processes step number steps * bars ends the Beat: the mode *)
(* is NORMAL and every lane is running with nextDue = now + its period; no  *)
(* earlier pass ends it.                                                    *)
BeatDone(G) ==
  (BeatPatterns[G.pat].bars - G.barsLeft) * BeatPatterns[G.pat].steps + G.step

BeatPass ==
  mode = "BEAT" =>
    LET P == BeatPatterns[g.pat]
        marked(i) == i < 3 /\ g.step \in P.hits[i + 1]
    IN  IF SDiff(now', g.nextStepAt) < 0
        THEN /\ mode' = "BEAT" /\ g'.pat = g.pat
             /\ BeatDone(g') = BeatDone(g)
             /\ \A i \in Lanes : ~lanes'[i].hFired
        ELSE /\ \A i \in Lanes : lanes'[i].hFired => marked(i)
             /\ IF BeatDone(g) + 1 = P.steps * P.bars
                THEN /\ mode' = "NORMAL"
                     /\ \A i \in Lanes :
                           /\ lanes'[i].running
                           /\ lanes'[i].nextDue = U32Add(now', periodMs(lanes'[i]))
                ELSE /\ mode' = "BEAT" /\ g'.pat = g.pat
                     /\ BeatDone(g') = BeatDone(g) + 1

C24_BeatLifeCycle ==
  /\ [][BeatPass]_vars
  /\ []("beat start" \in Events(State)
          => /\ mode = "BEAT" /\ BeatDone(g) = 0
             /\ \A i \in Lanes : ~lanes[i].hFired /\ ~lanes[i].running)

(* the pass that processes the last step of the last bar *)
C24_Witness ==
  /\ "beat end" \in Events(State)
  /\ mode = "NORMAL"
  /\ g.step = 0 /\ g.barsLeft = 0
  /\ \A i \in Lanes : lanes[i].nextDue = U32Add(now, periodMs(lanes[i]))


(* C25 -- Phase Snap release.  The pass that starts a Phase Snap saves the  *)
(* follower's baseHz as it was, and the saved value, the follower and the   *)
(* reference stay the same for the whole snap; at the end of every pass in  *)
(* PHASE_SNAP mode the follower's baseHz is the reference's.  The handler,  *)
(* applied at the next pass to any reachable PHASE_SNAP state, leaves the   *)
(* reference and the lanes not involved unchanged and the follower's        *)
(* nextDue equal to the reference's; before snapEnd the follower's baseHz   *)
(* is the reference's and the mode stays; from snapEnd on the follower's    *)
(* baseHz is the saved value, the mode is NORMAL, and nextDue is still the  *)
(* reference's.                                                             *)
SnapHandled ==
  mode = "PHASE_SNAP" =>
    LET t == U32Add(now, TickMs)
        M == loopMid(State, t, O0)
        R == handlePhaseSnap(M, t)
        ref == g.snapRef
        fol == g.snapFol
    IN  /\ ref \in Lanes /\ fol \in Lanes /\ ref # fol
        /\ lanes[fol].baseHz = lanes[ref].baseHz
        /\ \A i \in Lanes \ {fol} : R.lanes[i] = M.lanes[i]
        /\ R.lanes[fol].nextDue = M.lanes[ref].nextDue
        /\ R.lanes[fol] = [M.lanes[fol] EXCEPT !.baseHz = R.lanes[fol].baseHz,
                                               !.nextDue = R.lanes[fol].nextDue]
        /\ IF SDiff(t, g.snapEnd) < 0
           THEN R.mode = "PHASE_SNAP" /\ R.lanes[fol].baseHz = M.lanes[ref].baseHz
           ELSE R.mode = "NORMAL" /\ R.lanes[fol].baseHz = lanes[fol].savedHz

SnapStarted ==
  "snap start" \in Events(State) =>
     /\ mode = "PHASE_SNAP"
     /\ lanes[g.snapFol].savedHz = hist.hzBefore[g.snapFol]
     /\ lanes[g.snapRef].baseHz = hist.hzBefore[g.snapRef]

SnapPass ==
  mode = "PHASE_SNAP" =>
     /\ lanes'[g.snapFol].savedHz = lanes[g.snapFol].savedHz
     /\ lanes'[g.snapRef].baseHz = lanes[g.snapRef].baseHz
     /\ g'.snapFol = g.snapFol /\ g'.snapRef = g.snapRef
     /\ mode' \in {"PHASE_SNAP", "NORMAL"}
     /\ mode' = "NORMAL" => lanes'[g.snapFol].baseHz = lanes[g.snapFol].savedHz

C25_SnapRelease ==
  /\ [](SnapHandled /\ SnapStarted)
  /\ [][SnapPass]_vars

(* the pass that ends a Phase Snap taken after a Reorg Swap: the follower   *)
(* has its own tempo back, which is not the reference's                     *)
C25_Witness ==
  /\ "snap end" \in Events(State)
  /\ mode = "NORMAL"
  /\ lanes[g.snapFol].baseHz = lanes[g.snapFol].savedHz
  /\ lanes[g.snapFol].baseHz # lanes[g.snapRef].baseHz
  /\ lanes[0].baseHz = BASE_HZ[1]


====
